---- MODULE Spec2Model ----
(***************************************************************************)
(* Eigen-Koan Matrix generator (Generator.ipynb): generate_ekm fills a     *)
(* rows x cols grid of strings from a categorised word bank, display_ekm   *)
(* prints a grid as a column-aligned table.                                *)
(*                                                                         *)
(* The grid is filled one cell per step, row by row; the redraw loop that  *)
(* skips empty categories takes one step per redraw.  A word bank is a     *)
(* dict: its keys keep the order in which they were inserted.  The random  *)
(* source (Python's module-level random) is a generator: random.seed(s)    *)
(* puts it in the state fixed by s, and every draw moves it on by a number *)
(* of generator words that depends on the kind of the draw, so what a      *)
(* seeded source yields is a function of the seed, of the kinds of the     *)
(* draws made since seeding, and of the kind of the draw.  That function   *)
(* is fixed draw by draw, the first time a draw is observed (tape).  The   *)
(* unseeded source (OS entropy) yields any value.                          *)
(***************************************************************************)
EXTENDS Integers, Sequences, FiniteSets, TLC

VARIABLES pc, rows, cols, word_bank, null_probability, diagonal_themes, seed,
          grid, origin, general_categories, r, c, chosen_category, redraws,
          rng, tape, raised, printed, calls, ref

vars == <<pc, rows, cols, word_bank, null_probability, diagonal_themes, seed,
          grid, origin, general_categories, r, c, chosen_category, redraws,
          rng, tape, raised, printed, calls, ref>>

---------------------------------------------------------------------------
(* Bounds of the model. *)

\* rows and cols range over -1..MaxDim
MaxDim == 3
\* cells of the largest grid
MaxCells == 4
\* probabilities and random() values are multiples of 1/ProbDen
ProbDen == 2
\* redraws of one cell's loop that the model follows
MaxRedraws == 3
\* calls of generate_ekm in one behaviour of DetSpec
MaxCalls == 4

---------------------------------------------------------------------------
(* Python values. *)

\* None, and a value that is not None
None == <<>>
Some(x) == <<x>>

\* truth value of a string: the empty string is false
Truthy(s) == s # ""

\* len(range(n))
RangeLen(n) == IF n > 0 THEN n ELSE 0

Max(a, b) == IF a >= b THEN a ELSE b

Range(f) == {f[x] : x \in DOMAIN f}

---------------------------------------------------------------------------
(* Inputs. *)

\* category names; the empty string is a legal dictionary key
CatNames == {"", "A", "B"}
\* the orders in which the keys D can have been inserted
Orders(D) == {s \in [1 .. Cardinality(D) -> D] :
                \A i, j \in 1 .. Cardinality(D) : i # j => s[i] # s[j]}
\* the terms a category may hold, in the order of its list
Vocabulary == [k \in CatNames |->
                 IF k = "A" THEN <<"a">> ELSE IF k = "B" THEN <<"bb">> ELSE <<"ccc">>]
\* word banks: the items (key, terms) in insertion order; any subset of the
\* names in any order, each with no term or with its terms
Banks == UNION {UNION {{[i \in 1 .. Cardinality(D) |->
                           <<s[i], IF s[i] \in E THEN Vocabulary[s[i]] ELSE <<>>>>] :
                       E \in SUBSET D} : s \in Orders(D)} : D \in SUBSET CatNames}
\* diagonal_themes: keys among 'main' and 'anti', values any name
ThemeDicts == UNION {[K -> CatNames] : K \in SUBSET {"main", "anti"}}
\* the diagonal_themes argument: None or a dict
ThemeArgs == {None} \cup {Some(d) : d \in ThemeDicts}

\* the dimensions of a call
Dims == {d \in (-1 .. MaxDim) \X (-1 .. MaxDim) :
           RangeLen(d[1]) * RangeLen(d[2]) <= MaxCells}

\* the inputs of the calls of DetSpec: a 1 x 1 grid whose cell names the
\* theme B, over the empty bank (the call raises unless the cell is null), a
\* bank of one empty category (the sentinel), a bank that has B (a themed
\* cell), a bank whose general pool mixes an empty category and one with two
\* terms (redraws), and the same items inserted in the other order
DetDims == {<<1, 1>>}
DetBanks == { <<>>,
              << <<"", <<>>>> >>,
              << <<"B", <<"bb">>>> >>,
              << <<"", <<>>>>, <<"A", <<"a", "aa">>>> >>,
              << <<"A", <<"a", "aa">>>>, <<"", <<>>>> >> }
DetProbs == {1}
DetThemes == {Some([k \in {"main"} |-> "B"])}
\* the calls: every bank under seed 1, and calls that leave the shared source
\* in other states: another seed, and unseeded calls (one of them raising)
DetCalls == {<<wb, Some(1)>> : wb \in DetBanks}
              \cup { << << <<"", <<>>>> >>, Some(2) >>,
                     << << <<"B", <<"bb">>>> >>, None >>,
                     << <<>>, None >> }

NULL_MARKER == "{NULL}"
EMPTY_BANK == "[EMPTY_BANK]"

---------------------------------------------------------------------------
(* The random source. *)

\* the values a draw can yield: random() (q = 0) a numerator u, u/ProbDen in
\* [0, 1); random.choice over q elements an index 1..q
Outcomes(q) == IF q = 0 THEN 0 .. (ProbDen - 1) ELSE 1 .. q

\* a seeded source yields, after the same draws since seeding, what it
\* yielded to a draw of the same kind before
Consistent(tp, st, q, v) ==
    \/ st.stream = None
    \/ \A e \in tp : (e[1] = st.stream[1] /\ e[2] = st.hist /\ e[3] = q) => e[4] = v

Observe(tp, st, q, v) ==
    IF st.stream = None THEN tp ELSE tp \cup {<<st.stream[1], st.hist, q, v>>}

\* the source after one draw of kind q
Advance(st, q) ==
    IF st.stream = None THEN st ELSE [st EXCEPT !.hist = Append(@, q)]

\* a mutant of Reseed: the seed is ignored
ReseedSkipped(st, sd) == st

\* if seed is not None: random.seed(seed)
Reseed(st, sd) == IF sd # None THEN [stream |-> sd, hist |-> <<>>] ELSE st

---------------------------------------------------------------------------
(* generate_ekm: set-up. *)

\* list(word_bank.keys()): the keys in insertion order
Keys(wb) == [i \in 1 .. Len(wb) |-> wb[i][1]]

\* k in word_bank
Has(wb, k) == \E i \in 1 .. Len(wb) : wb[i][1] = k

\* word_bank[k], for a key of the bank
Get(wb, k) == wb[CHOOSE i \in 1 .. Len(wb) : wb[i][1] = k][2]

\* a mutant of GeneralCategories: theme categories are not filtered out
GeneralCategoriesUnfiltered(wb, dt) == Keys(wb)

\* general_categories: the keys that are no theme value, or all keys
GeneralCategories(wb, dt) ==
    LET all_categories == Keys(wb)
        general == SelectSeq(all_categories, LAMBDA cat : cat \notin Range(dt))
    IN  IF general = <<>> THEN all_categories ELSE general

\* a mutant of NewGrid: rows and cols swapped
NewGridSwapped(nrows, ncols) ==
    [i \in 1 .. RangeLen(ncols) |-> [j \in 1 .. RangeLen(nrows) |-> ""]]

\* [['' for _ in range(cols)] for _ in range(rows)]
NewGrid(nrows, ncols) ==
    [i \in 1 .. RangeLen(nrows) |-> [j \in 1 .. RangeLen(ncols) |-> ""]]

\* where each cell's value came from (not in the code: it records the branch
\* that wrote the cell and the category it drew from)
Unset == [kind |-> "unset", cat |-> None]
NewOrigin(nrows, ncols) ==
    [i \in 1 .. RangeLen(nrows) |-> [j \in 1 .. RangeLen(ncols) |-> Unset]]

---------------------------------------------------------------------------
(* generate_ekm: one cell. *)

\* theme_category of cell (rr, cc): main, overwritten by anti
ThemeCategory(dt, rr, cc, nrows) ==
    LET is_main_diag == rr = cc
        is_anti_diag == rr + cc = nrows - 1
        main == IF is_main_diag /\ "main" \in DOMAIN dt
                THEN Some(dt["main"]) ELSE None
    IN  IF is_anti_diag /\ "anti" \in DOMAIN dt THEN Some(dt["anti"]) ELSE main

\* a mutant of ThemeUsable: the category's term list is not tested
ThemeUsableUnchecked(tc, wb) ==
    tc # None /\ Truthy(tc[1]) /\ Has(wb, tc[1])

\* theme_category and theme_category in word_bank and word_bank[theme_category]
ThemeUsable(tc, wb) ==
    tc # None /\ Truthy(tc[1]) /\ Has(wb, tc[1]) /\ Get(wb, tc[1]) # <<>>

\* a mutant of NullDraw: off by one step of the probability scale
NullDrawOffByOne(u, p) == u + 1 < p

\* random.random() < null_probability
NullDraw(u, p) == u < p

\* not word_bank.get(cat)
IsEmptyCat(wb, cat) == ~Has(wb, cat) \/ Get(wb, cat) = <<>>

\* a mutant of AllGeneralEmpty: the test never succeeds
AllGeneralEmptyNever(wb, gc) == FALSE

\* all(not word_bank.get(cat) for cat in general_categories)
AllGeneralEmpty(wb, gc) == \A k \in 1 .. Len(gc) : IsEmptyCat(wb, gc[k])

SetCell(g, rr, cc, v) == [g EXCEPT ![rr + 1][cc + 1] = v]

\* the for loops: the next cell, or the end of the loops
NextCell ==
    IF c + 1 < cols THEN /\ pc' = "cell" /\ r' = r /\ c' = c + 1
    ELSE IF r + 1 < rows THEN /\ pc' = "cell" /\ r' = r + 1 /\ c' = 0
    ELSE /\ pc' = "return" /\ r' = r /\ c' = c

\* grid[r][c] = v, written by the branch `kind` from category `cat`
Assign(v, kind, cat) ==
    /\ grid' = SetCell(grid, r, c, v)
    /\ origin' = SetCell(origin, r, c, [kind |-> kind, cat |-> cat])
    /\ chosen_category' = None
    /\ redraws' = 0
    /\ NextCell

\* an exception leaves generate_ekm
Raise(err) ==
    /\ pc' = "error"
    /\ raised' = Some(err)
    /\ UNCHANGED <<grid, origin, r, c, chosen_category, redraws>>

Args == <<rows, cols, word_bank, null_probability, diagonal_themes, seed>>
Env == <<general_categories, printed, calls, ref>>

---------------------------------------------------------------------------
(* Actions. *)

Init ==
    /\ pc = "idle"
    /\ rows = 0 /\ cols = 0
    /\ word_bank = <<>>
    /\ null_probability = 0
    /\ diagonal_themes = <<>>
    /\ seed = None
    /\ grid = <<>> /\ origin = <<>>
    /\ general_categories = <<>>
    /\ r = 0 /\ c = 0
    /\ chosen_category = None
    /\ redraws = 0
    /\ rng = [stream |-> None, hist |-> <<>>]
    /\ tape = {}
    /\ raised = None
    /\ printed = <<>>
    /\ calls = 0
    /\ ref = None

\* generate_ekm(nrows, ncols, wb, p, dt, sd) up to the for loops
Enter(nrows, ncols, wb, p, dt, sd) ==
    /\ rows' = nrows /\ cols' = ncols
    /\ word_bank' = wb
    /\ null_probability' = p
    /\ seed' = sd
    /\ rng' = Reseed(rng, sd)
    /\ diagonal_themes' = (IF dt = None THEN <<>> ELSE dt[1])
    /\ grid' = NewGrid(nrows, ncols)
    /\ origin' = NewOrigin(nrows, ncols)
    /\ general_categories' = GeneralCategories(wb, diagonal_themes')
    /\ r' = 0 /\ c' = 0
    /\ pc' = IF nrows > 0 /\ ncols > 0 THEN "cell" ELSE "return"
    /\ chosen_category' = None
    /\ redraws' = 0
    /\ raised' = None
    /\ printed' = <<>>
    /\ calls' = calls + 1
    /\ UNCHANGED <<tape, ref>>

\* one call, unseeded or seeded
Call ==
    /\ pc = "idle"
    /\ \E d \in Dims, wb \in Banks, p \in 0 .. ProbDen, dt \in ThemeArgs :
          Enter(d[1], d[2], wb, p, dt, None)

\* the cell has a usable theme: random.choice(word_bank[theme_category])
ThemedCell ==
    /\ pc = "cell"
    /\ LET tc == ThemeCategory(diagonal_themes, r, c, rows) IN
       /\ ThemeUsable(tc, word_bank)
       /\ IF ~Has(word_bank, tc[1])
          THEN Raise("KeyError") /\ UNCHANGED <<rng, tape>>
          ELSE IF Get(word_bank, tc[1]) = <<>>
          THEN Raise("IndexError") /\ UNCHANGED <<rng, tape>>
          ELSE LET terms == Get(word_bank, tc[1]) IN
               \E i \in Outcomes(Len(terms)) :
                 /\ Consistent(tape, rng, Len(terms), i)
                 /\ tape' = Observe(tape, rng, Len(terms), i)
                 /\ rng' = Advance(rng, Len(terms))
                 /\ Assign(terms[i], "theme", tc)
                 /\ UNCHANGED raised
    /\ UNCHANGED <<Args, Env>>

\* no usable theme, and random.random() < null_probability
NullCell ==
    /\ pc = "cell"
    /\ ~ThemeUsable(ThemeCategory(diagonal_themes, r, c, rows), word_bank)
    /\ \E u \in Outcomes(0) :
         /\ NullDraw(u, null_probability)
         /\ Consistent(tape, rng, 0, u)
         /\ tape' = Observe(tape, rng, 0, u)
         /\ rng' = Advance(rng, 0)
    /\ Assign(NULL_MARKER, "null", None)
    /\ UNCHANGED <<Args, Env, raised>>

\* no usable theme, no null, and random.choice(general_categories) raises
GeneralRaise ==
    /\ pc = "cell"
    /\ ~ThemeUsable(ThemeCategory(diagonal_themes, r, c, rows), word_bank)
    /\ general_categories = <<>>
    /\ \E u \in Outcomes(0) :
         /\ ~NullDraw(u, null_probability)
         /\ Consistent(tape, rng, 0, u)
         /\ tape' = Observe(tape, rng, 0, u)
         /\ rng' = Advance(rng, 0)
    /\ Raise("IndexError")
    /\ UNCHANGED <<Args, Env>>

\* no usable theme, no null, the chosen category has terms: the while loop
\* is not entered and its else clause draws the term
GeneralPick ==
    /\ pc = "cell"
    /\ ~ThemeUsable(ThemeCategory(diagonal_themes, r, c, rows), word_bank)
    /\ general_categories # <<>>
    /\ \E u \in Outcomes(0), k \in Outcomes(Len(general_categories)) :
         LET st1 == Advance(rng, 0)
             st2 == Advance(st1, Len(general_categories))
             tp1 == Observe(tape, rng, 0, u)
             tp2 == Observe(tp1, st1, Len(general_categories), k)
             cat == general_categories[k]
         IN  /\ ~NullDraw(u, null_probability)
             /\ Consistent(tape, rng, 0, u)
             /\ Consistent(tp1, st1, Len(general_categories), k)
             /\ ~IsEmptyCat(word_bank, cat)
             /\ LET terms == Get(word_bank, cat) IN
                \E i \in Outcomes(Len(terms)) :
                  /\ Consistent(tp2, st2, Len(terms), i)
                  /\ tape' = Observe(tp2, st2, Len(terms), i)
                  /\ rng' = Advance(st2, Len(terms))
                  /\ Assign(terms[i], "general", Some(cat))
    /\ UNCHANGED <<Args, Env, raised>>

\* no usable theme, no null, the chosen category is empty: into the loop
GeneralEmpty ==
    /\ pc = "cell"
    /\ ~ThemeUsable(ThemeCategory(diagonal_themes, r, c, rows), word_bank)
    /\ general_categories # <<>>
    /\ \E u \in Outcomes(0), k \in Outcomes(Len(general_categories)) :
         LET st1 == Advance(rng, 0)
             tp1 == Observe(tape, rng, 0, u)
             cat == general_categories[k]
         IN  /\ ~NullDraw(u, null_probability)
             /\ Consistent(tape, rng, 0, u)
             /\ Consistent(tp1, st1, Len(general_categories), k)
             /\ IsEmptyCat(word_bank, cat)
             /\ tape' = Observe(tp1, st1, Len(general_categories), k)
             /\ rng' = Advance(st1, Len(general_categories))
             /\ chosen_category' = Some(cat)
    /\ pc' = "while"
    /\ redraws' = 0
    /\ UNCHANGED <<Args, Env, raised, grid, origin, r, c>>

\* in the loop, every general category is empty: the sentinel, and break
WhileSentinel ==
    /\ pc = "while"
    /\ AllGeneralEmpty(word_bank, general_categories)
    /\ Assign(EMPTY_BANK, "sentinel", None)
    /\ UNCHANGED <<Args, Env, raised, rng, tape>>

\* in the loop, a redraw of another empty category: the loop goes on
RedrawEmpty ==
    /\ pc = "while"
    /\ ~AllGeneralEmpty(word_bank, general_categories)
    /\ redraws < MaxRedraws
    /\ \E k \in Outcomes(Len(general_categories)) :
         /\ Consistent(tape, rng, Len(general_categories), k)
         /\ IsEmptyCat(word_bank, general_categories[k])
         /\ tape' = Observe(tape, rng, Len(general_categories), k)
         /\ rng' = Advance(rng, Len(general_categories))
         /\ chosen_category' = Some(general_categories[k])
    /\ redraws' = redraws + 1
    /\ UNCHANGED <<Args, Env, raised, grid, origin, r, c, pc>>

\* in the loop, a redraw of a category with terms: the loop ends without a
\* break and its else clause draws the term
RedrawPick ==
    /\ pc = "while"
    /\ ~AllGeneralEmpty(word_bank, general_categories)
    /\ redraws < MaxRedraws
    /\ \E k \in Outcomes(Len(general_categories)) :
         LET st1 == Advance(rng, Len(general_categories))
             tp1 == Observe(tape, rng, Len(general_categories), k)
             cat == general_categories[k]
         IN  /\ Consistent(tape, rng, Len(general_categories), k)
             /\ ~IsEmptyCat(word_bank, cat)
             /\ LET terms == Get(word_bank, cat) IN
                \E i \in Outcomes(Len(terms)) :
                  /\ Consistent(tp1, st1, Len(terms), i)
                  /\ tape' = Observe(tp1, st1, Len(terms), i)
                  /\ rng' = Advance(st1, Len(terms))
                  /\ Assign(terms[i], "general", Some(cat))
    /\ UNCHANGED <<Args, Env, raised>>

\* return grid.  A returned grid of a seeded call may be kept as the reference
\* that later calls with the same arguments are compared with.
Return ==
    /\ pc = "return"
    /\ pc' = "done"
    /\ \E keep \in BOOLEAN :
         ref' = IF keep /\ seed # None /\ ref = None
                THEN Some([args |-> Args, grid |-> grid, call |-> calls])
                ELSE ref
    /\ UNCHANGED <<Args, grid, origin, general_categories, r, c,
                   chosen_category, redraws, rng, tape, raised, printed,
                   calls>>

\* a further call, whatever the earlier calls left in the random source
CallAgain ==
    /\ pc \in {"idle", "done", "error"}
    /\ calls < MaxCalls
    /\ \E d \in DetDims, call \in DetCalls, p \in DetProbs, dt \in DetThemes :
          Enter(d[1], d[2], call[1], p, dt, call[2])

---------------------------------------------------------------------------
(* display_ekm. *)

Title == "Generated EKM"
\* the header and row glyphs (U+2610 and U+2630), one character each
ColGlyph == "#"
RowGlyph == "="

\* s * n
RECURSIVE Repeat(_, _)
Repeat(s, n) == IF n <= 0 THEN "" ELSE s \o Repeat(s, n - 1)

\* f"{s:<{w}}"
LJust(s, w) == s \o Repeat(" ", w - Len(s))

\* sep.join(ss)
RECURSIVE Join(_, _)
Join(sep, ss) ==
    IF ss = <<>> THEN ""
    ELSE IF Len(ss) = 1 THEN ss[1]
    ELSE ss[1] \o sep \o Join(sep, Tail(ss))

\* max of a non-empty list
RECURSIVE MaxOf(_)
MaxOf(ns) == IF Len(ns) = 1 THEN ns[1] ELSE Max(ns[1], MaxOf(Tail(ns)))

\* f"{glyph}{i+1}", i counted from 0
Header(i) == ColGlyph \o ToString(i + 1)

\* col_widths, after the headers were taken into account
ColWidths(g) ==
    [j \in 1 .. Len(g[1]) |->
        Max(MaxOf([i \in 1 .. Len(g) |-> Len(g[i][j])]), Len(Header(j - 1)))]

HeaderLine(g) ==
    Join(" | ", [j \in 1 .. Len(g[1]) |-> LJust(Header(j - 1), ColWidths(g)[j])])

Separator(g) ==
    Join("-", [j \in 1 .. Len(g[1]) |-> Repeat("-", ColWidths(g)[j])])
        \o Repeat("-", 3 * (Len(g[1]) - 1))

\* f"{glyph}{r+1:<4}", r counted from 0
RowLabel(i) == RowGlyph \o LJust(ToString(i + 1), 4)

\* the names bound at module level while display_ekm runs
GlobalNames == {"random", "textwrap", "DEFAULT_WORD_BANK",
                "DEFAULT_NULL_PROBABILITY", "generate_ekm", "display_ekm",
                "ekm1", "themes", "ekm2", "themes_alt", "ekm3"}

\* row_line of row i.  Its generator expression iterates over i but reads
\* grid[r][c]: c is no local of display_ekm (the c of col_widths is scoped
\* to that comprehension), so it is looked up among the globals as soon as
\* the first column is formatted.  None: NameError.
RowLine(g, i) ==
    IF Len(g[1]) = 0 THEN Some("")
    ELSE IF "c" \notin GlobalNames THEN None
    ELSE Some(Join(" | ", [j \in 1 .. Len(g[1]) |-> "c"]))

\* what display_ekm prints before the rows
Preamble(g) ==
    << "", "--- " \o Title \o " ---",
       "     | " \o HeaderLine(g),
       "-----+-" \o Separator(g) \o "-" >>

Footer(g) == Repeat("-", Len(RowLabel(Len(g) - 1)) + Len(HeaderLine(g)) + 3)

\* display_ekm(grid) on the grid a call returned
Display ==
    /\ pc = "done"
    /\ pc' = "displayed"
    /\ IF grid = <<>>
       THEN /\ printed' = <<"Cannot display empty grid.">>
            /\ raised' = None
       ELSE IF RowLine(grid, 1) = None
       THEN /\ printed' = Preamble(grid)
            /\ raised' = Some("NameError")
       ELSE /\ printed' = Preamble(grid)
                    \o [i \in 1 .. Len(grid) |->
                          RowLabel(i - 1) \o "| " \o RowLine(grid, i)[1]]
                    \o <<Footer(grid)>>
            /\ raised' = None
    /\ UNCHANGED <<Args, grid, origin, general_categories, r, c,
                   chosen_category, redraws, rng, tape, calls, ref>>

Next ==
    \/ Call
    \/ ThemedCell
    \/ NullCell
    \/ GeneralRaise
    \/ GeneralPick
    \/ GeneralEmpty
    \/ WhileSentinel
    \/ RedrawEmpty
    \/ RedrawPick
    \/ Return
    \/ Display

\* one call of generate_ekm, unseeded: a seeded call draws from a stream
\* nothing has observed yet, which yields any value too
Spec == Init /\ [][Next]_vars

DetNext ==
    \/ CallAgain
    \/ ThemedCell
    \/ NullCell
    \/ GeneralRaise
    \/ GeneralPick
    \/ GeneralEmpty
    \/ WhileSentinel
    \/ RedrawEmpty
    \/ RedrawPick
    \/ Return

\* up to MaxCalls calls, seeded and unseeded, sharing the random source
DetSpec == Init /\ [][DetNext]_vars

---------------------------------------------------------------------------
(* Properties. *)

\* generate_ekm has returned its grid
Returned == pc \in {"done", "displayed"}

\* the cells of the grid, and those already written
Cells == {ij \in (1 .. Len(grid)) \X (1 .. MaxCells) : ij[2] <= Len(grid[ij[1]])}
Written == {ij \in Cells : origin[ij[1]][ij[2]].kind # "unset"}
Value(ij) == grid[ij[1]][ij[2]]
Origin(ij) == origin[ij[1]][ij[2]]

\* the diagonals, on cells counted from 1
OnMain(ij) == ij[1] = ij[2]
OnAnti(ij) == (ij[1] - 1) + (ij[2] - 1) = rows - 1

\* the categories of the word bank, and the terms of one of them
Categories == {word_bank[i][1] : i \in 1 .. Len(word_bank)}
Terms(cat) == Range(Get(word_bank, cat))

\* the category `key` names is in the word bank and has a term
Names(key) == key \in DOMAIN diagonal_themes
Usable(key) ==
    /\ Names(key)
    /\ diagonal_themes[key] \in Categories
    /\ Terms(diagonal_themes[key]) # {}

\* the general pool as the specification words it
Pool ==
    LET free == Categories \ Range(diagonal_themes)
    IN  IF free = {} THEN Categories ELSE free

\* C1 (shape invariant): a returned grid has max(rows, 0) rows of max(cols, 0)
\* cells each, and a call with rows <= 0 or cols <= 0 goes straight to its
\* return: it fills no cell and raises nothing.
C1_Shape ==
    /\ Returned =>
         /\ Len(grid) = Max(rows, 0)
         /\ \A i \in 1 .. Len(grid) : Len(grid[i]) = Max(cols, 0)
    /\ (calls > 0 /\ (rows <= 0 \/ cols <= 0)) =>
         /\ pc \in {"return", "done", "displayed"}
         /\ Cells = {}

C1_Witness ==
    /\ pc = "done" /\ rows = 3 /\ cols = 1
    /\ Len(grid) = 3 /\ Len(grid[3]) = 1
    /\ Written = Cells

\* a word bank as a mapping from category to terms, whatever the order in
\* which its keys were inserted
AsMapping(wb) == [k \in {wb[i][1] : i \in 1 .. Len(wb)} |-> Get(wb, k)]

\* C2 as stated (determinism): a seeded call that returns, made with the
\* arguments of an earlier seeded call that returned (the same rows, cols,
\* word bank as a mapping, null_probability, diagonal_themes and seed),
\* returns the same grid, whatever calls ran before the first and between
\* the two.
C2_Determinism ==
    ( /\ pc = "done" /\ ref # None
      /\ [ref[1].args EXCEPT ![3] = AsMapping(@)] = [Args EXCEPT ![3] = AsMapping(@)] )
    => grid = ref[1].grid

\* C2 as amended: a seeded call that returns, made with the arguments of an
\* earlier seeded call that returned, the word bank's categories inserted in
\* the same order, returns the same grid, whatever seeded, unseeded or
\* raising calls ran before the first and between the two.
C2_DeterminismAmended ==
    (pc = "done" /\ ref # None /\ ref[1].args = Args) => grid = ref[1].grid

\* the second, third and fourth of four calls: a call before the compared
\* pair, a call between them, a call under another seed, and a grid with a
\* term reached through the general pool
C2_Witness ==
    /\ pc = "done" /\ ref # None /\ ref[1].args = Args
    /\ calls = 4 /\ ref[1].call = 2
    /\ \E e \in tape : e[1] # seed[1]
    /\ grid = <<<<"aa">>>>
    /\ grid = ref[1].grid

\* C3 (theme priority): on an n x n grid with n odd and themes main: A,
\* anti: B, A and B distinct categories of the word bank that have terms, the
\* center cell is drawn from B.
C3_ThemePriority ==
    LET n == rows
        mid == <<(n + 1) \div 2, (n + 1) \div 2>>
    IN  ( /\ calls > 0 /\ n = cols /\ n > 0 /\ n % 2 = 1
          /\ Usable("main") /\ Usable("anti")
          /\ diagonal_themes["main"] # diagonal_themes["anti"]
          /\ mid \in Written )
        => /\ Origin(mid).cat = Some(diagonal_themes["anti"])
           /\ Value(mid) \in Terms(diagonal_themes["anti"])

\* C4 (diagonal coverage): when 'main' names a category of the word bank
\* that has terms, every written cell with r = c that the anti theme does not
\* override holds a term drawn from that category.
C4_DiagonalCoverage ==
    (calls > 0 /\ Usable("main")) =>
        \A ij \in Written :
            (OnMain(ij) /\ ~(OnAnti(ij) /\ Names("anti"))) =>
                /\ Origin(ij) = [kind |-> "theme", cat |-> Some(diagonal_themes["main"])]
                /\ Value(ij) \in Terms(diagonal_themes["main"])

\* C5 (null-rate bound): with null_probability = 1.0 and no diagonal themes
\* the call raises nothing and every cell of the returned grid is '{NULL}'.
C5_NullRate ==
    (calls > 0 /\ null_probability = ProbDen /\ diagonal_themes = <<>>) =>
        /\ pc # "error"
        /\ Returned => \A ij \in Cells : Value(ij) = NULL_MARKER

C5_Witness ==
    /\ pc = "done" /\ null_probability = ProbDen /\ diagonal_themes = <<>>
    /\ rows = 1 /\ cols = 3
    /\ \E k \in Categories : Terms(k) # {}
    /\ \A ij \in Cells : Value(ij) = NULL_MARKER

\* the word bank has categories and every one of them is empty
AllEmptyBank ==
    /\ calls > 0
    /\ Categories # {}
    /\ \A k \in Categories : Terms(k) = {}

\* C6 as stated (fallback safety): over a word bank whose categories are all
\* empty the call raises nothing and every cell of the returned grid is the
\* sentinel.
C6_FallbackSafety ==
    AllEmptyBank =>
        /\ pc # "error"
        /\ Returned => \A ij \in Cells : Value(ij) = EMPTY_BANK

\* C6 as amended: over a word bank whose categories are all empty the call
\* raises nothing, its loop never redraws (it leaves at once with the
\* sentinel), and every cell of the returned grid is the null marker or the
\* sentinel: the sentinel everywhere when null_probability is 0.
C6_FallbackSafetyAmended ==
    AllEmptyBank =>
        /\ pc # "error"
        /\ redraws = 0
        /\ pc = "while" => ENABLED WhileSentinel
        /\ \A ij \in Written : Value(ij) \in {NULL_MARKER, EMPTY_BANK}
        /\ Returned =>
             /\ Written = Cells
             /\ null_probability = 0 => \A ij \in Cells : Value(ij) = EMPTY_BANK

C6_Witness ==
    /\ AllEmptyBank /\ pc = "done" /\ rows = 2 /\ cols = 2
    /\ \E ij \in Cells : Value(ij) = NULL_MARKER
    /\ \E ij \in Cells : Value(ij) = EMPTY_BANK

\* the category `key` names is absent from the word bank or empty
Malformed(key) == Names(key) /\ ~Usable(key)

\* the cell was filled by the general-selection path: the null marker, a
\* term of a general-pool category, or the sentinel
GeneralPath(ij) ==
    \/ Origin(ij).kind = "null" /\ Value(ij) = NULL_MARKER
    \/ /\ Origin(ij).kind = "general"
       /\ Origin(ij).cat[1] \in Pool
       /\ Value(ij) \in Terms(Origin(ij).cat[1])
    \/ Origin(ij).kind = "sentinel" /\ Value(ij) = EMPTY_BANK

\* C7 as stated (malformed theme reference), over a word bank that has a
\* category: when the category 'main' or 'anti' names is absent or empty the
\* call raises nothing, every cell of that diagonal is filled by the
\* general-selection path, and every cell of the returned grid is filled.
C7_MalformedTheme ==
    (calls > 0 /\ Categories # {} /\ (Malformed("main") \/ Malformed("anti"))) =>
        /\ pc # "error"
        /\ \A ij \in Written :
             ((Malformed("main") /\ OnMain(ij)) \/ (Malformed("anti") /\ OnAnti(ij)))
                 => GeneralPath(ij)
        /\ Returned => Written = Cells

\* the theme category selected for a cell: anti where it applies, else main
Selects(ij, key) ==
    IF key = "anti" THEN Names("anti") /\ OnAnti(ij)
    ELSE Names("main") /\ OnMain(ij) /\ ~(Names("anti") /\ OnAnti(ij))

\* C7 as amended: over a word bank that has a category, when the category
\* 'main' or 'anti' names is absent or empty the call raises nothing, every
\* cell whose selected theme (anti overriding main) is that category is
\* filled by the general-selection path, and every cell of the returned grid
\* is filled.
C7_MalformedThemeAmended ==
    (calls > 0 /\ Categories # {} /\ (Malformed("main") \/ Malformed("anti"))) =>
        /\ pc # "error"
        /\ \A ij \in Written :
             \A key \in {"main", "anti"} :
                 (Malformed(key) /\ Selects(ij, key)) => GeneralPath(ij)
        /\ Returned => Written = Cells

C7_Witness ==
    /\ pc = "done" /\ rows = 2 /\ cols = 2
    /\ Names("main") /\ diagonal_themes["main"] \notin Categories
    /\ Names("anti") /\ diagonal_themes["anti"] \in Categories
    /\ Terms(diagonal_themes["anti"]) = {}
    /\ Origin(<<1, 1>>).kind = "general"
    /\ Origin(<<2, 2>>).kind = "null"
    /\ Origin(<<1, 2>>).kind = "general"

\* C8 (bounded retries): the redraw loop of a cell redraws a bounded number
\* of times, at most once per category of the general pool, whatever
\* categories the random source draws.
C8_BoundedRedraws == redraws <= Len(general_categories)

\* C9 (general pool): general_categories is the pool, fixed by the call's
\* arguments; a term the general-selection path places comes from a category
\* of the pool, so from no theme category while the word bank has a category
\* that is no theme value; and a cell of that path gets the sentinel exactly
\* when every category of the pool is empty.
C9_GeneralPool ==
    calls > 0 =>
        /\ Range(general_categories) = Pool
        /\ \A ij \in Written :
             /\ Origin(ij).kind = "general" =>
                  /\ Origin(ij).cat[1] \in Pool
                  /\ Value(ij) \in Terms(Origin(ij).cat[1])
                  /\ (Categories \ Range(diagonal_themes) # {})
                        => Origin(ij).cat[1] \notin Range(diagonal_themes)
             /\ Origin(ij).kind \in {"general", "sentinel"} =>
                  (Origin(ij).kind = "sentinel"
                      <=> \A k \in Pool : Terms(k) = {})

C9_Witness ==
    /\ pc = "done" /\ rows = 2 /\ cols = 2
    /\ Usable("main") /\ Usable("anti")
    /\ Categories \ Range(diagonal_themes) # {}
    /\ Origin(<<1, 1>>).kind = "theme"
    /\ \E ij \in Cells : Origin(ij).kind = "general"

\* the line display_ekm is to print for row i
ExpectedRow(i) ==
    RowLabel(i - 1) \o "| " \o
        Join(" | ", [j \in 1 .. Len(grid[i]) |-> LJust(grid[i][j], ColWidths(grid)[j])])

\* C10 (formatter): for a grid with rows >= 1 and cols >= 1 display_ekm
\* raises nothing and prints the header row, then one labelled line per grid
\* row showing grid[r][i] in column i, padded to the column's width.
C10_Formatter ==
    (pc = "displayed" /\ rows >= 1 /\ cols >= 1) =>
        /\ raised = None
        /\ Len(printed) = Len(Preamble(grid)) + rows + 1
        /\ printed[3] = "     | " \o HeaderLine(grid)
        /\ \A i \in 1 .. rows : printed[Len(Preamble(grid)) + i] = ExpectedRow(i)

====
